---- MODULE Spec2Model ----
(***************************************************************************)
(* Model of union_extract (datafusion/functions/src/core/union_extract.rs) *)
(* UnionExtractFun::invoke over a union array (sparse or dense) or a union *)
(* scalar, with the span walk of the dense masked rebuild as explicit      *)
(* steps.                                                                  *)
(*                                                                         *)
(* An array is a record [data_type, values, has_nulls, validity]: values   *)
(* is the value buffer, has_nulls tells whether a validity bitmap exists   *)
(* and validity is that bitmap (<<>> when absent).  Offsets and indices    *)
(* are 0-based as in the source; sequences are indexed with +1.            *)
(***************************************************************************)
EXTENDS Integers, Sequences, FiniteSets, TLC

\* ------------------------------------------------------------------ bounds
MaxRows == 3
MaxChildLen == 3
MaxArgs == 2

\* ------------------------------------------------------- union data model
\* UnionFields as used by the benches: one field (1, "a") or two fields
\* (1, "a"), (3, "b"); type ids are not contiguous.
FieldSets ==
    { << [type_id |-> 1, name |-> "a", data_type |-> "Utf8"] >>,
      << [type_id |-> 1, name |-> "a", data_type |-> "Utf8"],
         [type_id |-> 3, name |-> "b", data_type |-> "Int32"] >> }

\* field names a caller may ask for; "c" is declared by no union
FieldNames == {"a", "b", "c"}

\* type ids a union scalar may carry (ScalarValue::Union is not validated)
ScalarTypeIds == {1, 3}

TypeIdsOf(fields) == { fields[k].type_id : k \in 1..Len(fields) }

DataTypeOf(type_id) == IF type_id = 1 THEN "Utf8" ELSE "Int32"

\* the payload stored at position i (0-based) of the child of type_id
ChildValue(type_id, i) == type_id * 10 + i

\* ------------------------------------------------------------ array model
ArrLen(arr) == Len(arr.values)

IsValid(arr, i) == (~arr.has_nulls) \/ arr.validity[i + 1]

null_count(arr) == Cardinality({ i \in 0..(ArrLen(arr) - 1) : ~IsValid(arr, i) })

MakeArray(dt, values, has_nulls, validity) ==
    [data_type |-> dt, values |-> values, has_nulls |-> has_nulls,
     validity |-> validity]

new_empty_array(dt) == MakeArray(dt, << >>, FALSE, << >>)

new_null_array(dt, n) ==
    MakeArray(dt, [i \in 1..n |-> 0], TRUE, [i \in 1..n |-> FALSE])

\* ---------------------------------------------------------------- results
NoArray == new_empty_array("Null")
ScalarNull == [tag |-> "Null", is_null |-> TRUE, value |-> 0]

NoResult == [status |-> "none", array |-> NoArray, scalar |-> ScalarNull]
OkArray(arr) == [status |-> "ok_array", array |-> arr, scalar |-> ScalarNull]
OkScalar(s) == [status |-> "ok_scalar", array |-> NoArray, scalar |-> s]
ErrFieldNotFound == [status |-> "err_field_not_found", array |-> NoArray,
                     scalar |-> ScalarNull]
Panic == [status |-> "panic", array |-> NoArray, scalar |-> ScalarNull]
ErrCast == [status |-> "err_cast", array |-> NoArray, scalar |-> ScalarNull]

\* Array::slice(offset, length); panics when the range leaves the array
slice(arr, offset, length) ==
    IF offset + length > ArrLen(arr)
    THEN Panic
    ELSE OkArray(MakeArray(arr.data_type,
                   [i \in 1..length |-> arr.values[offset + i]],
                   arr.has_nulls,
                   IF arr.has_nulls
                   THEN [i \in 1..length |-> arr.validity[offset + i]]
                   ELSE << >>))

\* arrow::compute::take(values, indices, None); an index out of range panics
take(arr, indices) ==
    IF \E k \in 1..Len(indices) : indices[k] < 0 \/ indices[k] >= ArrLen(arr)
    THEN Panic
    ELSE LET n == Len(indices)
             nulls == \E k \in 1..n : ~IsValid(arr, indices[k])
         IN OkArray(MakeArray(arr.data_type,
                      [k \in 1..n |-> arr.values[indices[k] + 1]],
                      nulls,
                      IF nulls THEN [k \in 1..n |-> IsValid(arr, indices[k])]
                      ELSE << >>))

\* --------------------------------------------------------------- variables
\* args:   the two arguments of invoke, the union and the field name
\* pc:     "ready" before the call, "walk" inside the span walk, "done" after
\* walk:   loop state of the dense masked rebuild
\* result: what invoke returned
\* plan:   the arguments and the result of return_type_from_exprs
\* tag:    what union_tag returned
\* strct:  the arguments and the result of struct_expr and return_type
VARIABLES args, pc, walk, result, plan, tag, strct

vars == << args, pc, walk, result, plan, tag, strct >>

NoValue == [some |-> FALSE, type_id |-> 0, value |-> ScalarNull]

NoWalk == [index |-> 0, type_match |-> FALSE, start |-> 0, last_offset |-> 0,
           mutable |-> new_empty_array("Null"), panicked |-> FALSE,
           copies |-> 0]

\* field lookup of invoke: the type id of the first field with that name
NotFound == -1

find_type_id(fields, field_name) ==
    IF \E k \in 1..Len(fields) : fields[k].name = field_name
    THEN fields[CHOOSE k \in 1..Len(fields) :
                  /\ fields[k].name = field_name
                  /\ \A j \in 1..(k - 1) : fields[j].name # field_name].type_id
    ELSE NotFound

\* ------------------------------------------------------------ sparse mode
\* arrow::compute::kernels::cmp::eq(type_ids, scalar type_id)
selected_mask(type_ids, type_id) ==
    [i \in 1..Len(type_ids) |-> type_ids[i] = type_id]

\* a plausible slip: the child's own bitmap replaces the merge
sparse_nulls_child_only(sparse, selected) ==
    IF sparse.has_nulls THEN sparse.validity ELSE selected

\* a plausible slip: the two bitmaps are or-ed, a row is valid when either is
sparse_nulls_or(sparse, selected) ==
    IF sparse.has_nulls
    THEN [i \in 1..Len(selected) |-> sparse.validity[i] \/ selected[i]]
    ELSE selected

\* NullBuffer::union of the child's bitmap and the selected mask
sparse_nulls(sparse, selected) ==
    IF sparse.has_nulls
    THEN [i \in 1..Len(selected) |-> sparse.validity[i] /\ selected[i]]
    ELSE selected

\* a plausible slip: no fast path, and the child's bitmap is forgotten
sparse_extract_mask_only(u, type_id) ==
    LET sparse == u.children[type_id]
    IN OkArray(MakeArray(sparse.data_type, sparse.values, TRUE,
                         selected_mask(u.type_ids, type_id)))

\* a plausible slip: the child is looked up by position, not by type id
sparse_extract_first_child(u, type_id) ==
    LET sparse == u.children[u.fields[1].type_id]
    IN IF \/ Len(u.fields) = 1
          \/ Len(u.type_ids) = 0
          \/ null_count(sparse) = ArrLen(sparse)
          \/ \A i \in 1..Len(u.type_ids) : u.type_ids[i] = type_id
       THEN OkArray(sparse)
       ELSE OkArray(MakeArray(sparse.data_type, sparse.values, TRUE,
                      sparse_nulls(sparse,
                                   selected_mask(u.type_ids, type_id))))

\* a plausible slip: the rebuild clears the value of every row it nulls
sparse_extract_zero_nulls(u, type_id) ==
    LET sparse == u.children[type_id]
        nulls == sparse_nulls(sparse, selected_mask(u.type_ids, type_id))
    IN IF \/ Len(u.fields) = 1
          \/ Len(u.type_ids) = 0
          \/ null_count(sparse) = ArrLen(sparse)
          \/ \A i \in 1..Len(u.type_ids) : u.type_ids[i] = type_id
       THEN OkArray(sparse)
       ELSE OkArray(MakeArray(sparse.data_type,
                      [i \in 1..ArrLen(sparse) |->
                         IF nulls[i] THEN sparse.values[i] ELSE 0],
                      TRUE, nulls))

sparse_extract(u, type_id) ==
    LET sparse == u.children[type_id]
    IN IF \/ Len(u.fields) = 1
          \/ Len(u.type_ids) = 0
          \/ null_count(sparse) = ArrLen(sparse)
          \/ \A i \in 1..Len(u.type_ids) : u.type_ids[i] = type_id
       THEN OkArray(sparse)
       ELSE OkArray(MakeArray(sparse.data_type, sparse.values, TRUE,
                      sparse_nulls(sparse,
                                   selected_mask(u.type_ids, type_id))))

\* ------------------------------------------------------------ scalar form
\* a plausible slip: the unwrapped value is returned whatever the type id
scalar_extract_no_compare(value, fields, field_name) ==
    IF value.some
    THEN IF find_type_id(fields, field_name) = NotFound
         THEN ErrFieldNotFound
         ELSE OkScalar(value.value)
    ELSE OkScalar(ScalarNull)

scalar_extract(value, fields, field_name) ==
    IF value.some
    THEN LET field_type_id == find_type_id(fields, field_name)
         IN IF field_type_id = NotFound
            THEN ErrFieldNotFound
            ELSE IF field_type_id = value.type_id
                 THEN OkScalar(value.value)
                 ELSE OkScalar(ScalarNull)
    ELSE OkScalar(ScalarNull)

\* ------------------------------------------------------------- dense mode
\* dense.len() >= union_array.len() && offsets.windows(2).all(w[0]+1 == w[1])
\* a plausible slip: the windows are not looked at
is_sequential_len_only(dense, n, offsets) == ArrLen(dense) >= n

is_sequential(dense, n, offsets) ==
    /\ ArrLen(dense) >= n
    /\ \A i \in 1..(Len(offsets) - 1) : offsets[i] + 1 = offsets[i + 1]

\* a plausible slip: the unreferenced child is handed out as it is
dense_empty_union_clone(dense) == OkArray(dense)

\* union_array.is_empty()
dense_empty_union(dense) ==
    IF ArrLen(dense) = 0
    THEN OkArray(dense)
    ELSE OkArray(new_empty_array(dense.data_type))

\* a plausible slip: the null array gets the child's length
dense_empty_child_len(dense, n) ==
    OkArray(new_null_array(dense.data_type, ArrLen(dense)))

\* a plausible slip: the null array is built without the child's data type
dense_empty_child_untyped(dense, n) == OkArray(new_null_array("Null", n))

\* dense.is_empty() for a non-empty union
dense_empty_child(dense, n) == OkArray(new_null_array(dense.data_type, n))

\* a plausible slip: the slice starts at 0 and not at offsets[0]
dense_single_field_slice0(dense, n, offsets) ==
    IF is_sequential(dense, n, offsets)
    THEN IF ArrLen(dense) = n THEN OkArray(dense) ELSE slice(dense, 0, n)
    ELSE take(dense, offsets)

\* fields.len() == 1
dense_single_field(dense, n, offsets) ==
    IF is_sequential(dense, n, offsets)
    THEN IF ArrLen(dense) = n
         THEN OkArray(dense)
         ELSE slice(dense, offsets[1], n)
    ELSE take(dense, offsets)

others_are_empty(u, type_id) ==
    \A k \in 1..Len(u.fields) :
        u.fields[k].type_id # type_id
            => ArrLen(u.children[u.fields[k].type_id]) = 0

all_type_ids_match(u, type_id) ==
    \A i \in 1..Len(u.type_ids) : u.type_ids[i] = type_id

\* a plausible slip: the slice starts at 0 and not at offsets[0]
dense_fast_path_slice0(dense, n, offsets) ==
    IF is_sequential(dense, n, offsets)
    THEN IF n < ArrLen(dense) THEN slice(dense, 0, n)
         ELSE IF n = ArrLen(dense) THEN OkArray(dense)
         ELSE Panic
    ELSE take(dense, offsets)

\* a plausible slip: the lengths are compared the other way round
dense_fast_path_cmp_swapped(dense, n, offsets) ==
    IF is_sequential(dense, n, offsets)
    THEN IF ArrLen(dense) < n THEN slice(dense, offsets[1], n)
         ELSE IF n = ArrLen(dense) THEN OkArray(dense)
         ELSE Panic
    ELSE take(dense, offsets)

\* several fields, and every other child is empty or every type id matches
dense_fast_path(dense, n, offsets) ==
    IF is_sequential(dense, n, offsets)
    THEN IF n < ArrLen(dense) THEN slice(dense, offsets[1], n)
         ELSE IF n = ArrLen(dense) THEN OkArray(dense)
         ELSE Panic   \* Ordering::Greater => unreachable!()
    ELSE take(dense, offsets)

\* MutableArrayData::new(vec![&dense_data], true, union_array.len())
mutable_new(dense) ==
    [data_type |-> dense.data_type, values |-> << >>, validity |-> << >>]

\* MutableArrayData::extend(0, start, end), for start <= end <= dense.len()
mutable_extend(m, dense, start, end) ==
    [m EXCEPT !.values = @ \o [i \in 1..(end - start) |-> dense.values[start + i]],
              !.validity = @ \o [i \in 1..(end - start) |-> IsValid(dense, start + i - 1)]]

\* MutableArrayData::extend_nulls(len)
mutable_extend_nulls(m, len) ==
    [m EXCEPT !.values = @ \o [i \in 1..len |-> 0],
              !.validity = @ \o [i \in 1..len |-> FALSE]]

\* MutableArrayData::freeze followed by make_array
mutable_freeze(m) ==
    LET nulls == \E i \in 1..Len(m.validity) : ~m.validity[i]
    IN MakeArray(m.data_type, m.values, nulls,
                 IF nulls THEN m.validity ELSE << >>)

\* the dense branch of invoke up to the span walk; "walk" means that the
\* masked rebuild is entered
EnterWalk == [status |-> "walk", array |-> NoArray, scalar |-> ScalarNull]

dense_extract(u, type_id) ==
    LET dense == u.children[type_id]
        n == Len(u.type_ids)
    IN IF n = 0 THEN dense_empty_union(dense)
       ELSE IF ArrLen(dense) = 0 THEN dense_empty_child(dense, n)
       ELSE IF Len(u.fields) = 1 THEN dense_single_field(dense, n, u.offsets)
       ELSE IF others_are_empty(u, type_id) \/ all_type_ids_match(u, type_id)
            THEN dense_fast_path(dense, n, u.offsets)
            ELSE EnterWalk

\* a plausible slip: a matching row that continues a run is flushed too,
\* the test last_offset + 1 != offset is left out
walk_body_per_row(w, dense, matches, offset) ==
    LET flush_bad == w.start > offset \/ offset > ArrLen(dense)
        next == [w EXCEPT !.index = @ + 1, !.last_offset = offset]
    IN IF w.type_match
       THEN IF flush_bad
            THEN [w EXCEPT !.panicked = TRUE, !.copies = @ + 1]
            ELSE [next EXCEPT
                    !.mutable = mutable_extend(@, dense, w.start, offset),
                    !.start = offset,
                    !.type_match = matches,
                    !.copies = @ + 1]
       ELSE IF matches
       THEN IF offset < w.last_offset
            THEN [w EXCEPT !.panicked = TRUE]
            ELSE [next EXCEPT
                    !.mutable = mutable_extend_nulls(@, offset - w.last_offset),
                    !.type_match = TRUE]
       ELSE next

\* the body of the for loop of the span walk for one row: w is the loop
\* state, matches is *value_type_id == type_id, offset is offsets[index].
\* offset - last_offset is a usize subtraction and extend needs
\* start <= end <= dense.len(); a violation ends the call with a panic.
\* copies counts the calls of mutable.extend.
walk_body(w, dense, matches, offset) ==
    LET flush_bad == w.start > offset \/ offset > ArrLen(dense)
        next == [w EXCEPT !.index = @ + 1, !.last_offset = offset]
    IN IF w.type_match /\ matches
       THEN IF w.last_offset + 1 # offset
            THEN IF flush_bad
                 THEN [w EXCEPT !.panicked = TRUE, !.copies = @ + 1]
                 ELSE [next EXCEPT
                         !.mutable = mutable_extend(@, dense, w.start, offset),
                         !.start = offset,
                         !.copies = @ + 1]
            ELSE next
       ELSE IF w.type_match /\ ~matches
       THEN IF flush_bad
            THEN [w EXCEPT !.panicked = TRUE, !.copies = @ + 1]
            ELSE [next EXCEPT
                    !.mutable = mutable_extend(@, dense, w.start, offset),
                    !.start = offset,
                    !.type_match = FALSE,
                    !.copies = @ + 1]
       ELSE IF ~w.type_match /\ matches
       THEN IF offset < w.last_offset
            THEN [w EXCEPT !.panicked = TRUE]
            ELSE [next EXCEPT
                    !.mutable = mutable_extend_nulls(@, offset - w.last_offset),
                    !.type_match = TRUE]
       ELSE next

\* --------------------------------------------------- static type resolution
\* arg_types[0]: a union type over fields, or some type that is no union
UnionType(fields) == [kind |-> "Union", fields |-> fields]
NonUnionType == [kind |-> "Int32", fields |-> << >>]

\* args[1]: Expr::Literal(ScalarValue::Utf8(Some(name))),
\* Expr::Literal(ScalarValue::Utf8(None)), a literal of another type, a column
LiteralUtf8(name) == [kind |-> "Literal", tag |-> "Utf8", some |-> TRUE, name |-> name]
LiteralUtf8Null == [kind |-> "Literal", tag |-> "Utf8", some |-> FALSE, name |-> ""]
LiteralInt32 == [kind |-> "Literal", tag |-> "Int32", some |-> TRUE, name |-> ""]
ColumnExpr == [kind |-> "Column", tag |-> "Utf8", some |-> FALSE, name |-> "a"]

PlanExprs == { LiteralUtf8(n) : n \in FieldNames }
                 \cup { LiteralUtf8Null, LiteralInt32, ColumnExpr }

OkType(dt) == [status |-> "ok_type", data_type |-> dt]
ErrType(e) == [status |-> e, data_type |-> "Null"]
NoType == [status |-> "none", data_type |-> "Null"]

\* a plausible slip: the last declared field's type is handed out
return_type_from_exprs_last(arg_type, expr) ==
    IF arg_type.kind # "Union"
    THEN ErrType("err_first_not_union")
    ELSE IF ~(expr.kind = "Literal" /\ expr.tag = "Utf8" /\ expr.some)
    THEN ErrType("err_second_not_literal")
    ELSE IF ~(\E k \in 1..Len(arg_type.fields) : arg_type.fields[k].name = expr.name)
    THEN ErrType("err_field_not_found")
    ELSE OkType(arg_type.fields[Len(arg_type.fields)].data_type)

return_type_from_exprs(arg_type, expr) ==
    IF arg_type.kind # "Union"
    THEN ErrType("err_first_not_union")
    ELSE IF ~(expr.kind = "Literal" /\ expr.tag = "Utf8" /\ expr.some)
    THEN ErrType("err_second_not_literal")
    ELSE IF ~(\E k \in 1..Len(arg_type.fields) : arg_type.fields[k].name = expr.name)
    THEN ErrType("err_field_not_found")
    ELSE OkType(arg_type.fields[CHOOSE k \in 1..Len(arg_type.fields) :
                  /\ arg_type.fields[k].name = expr.name
                  /\ \A j \in 1..(k - 1) :
                       arg_type.fields[j].name # expr.name].data_type)

NoPlan == [arg_type |-> NonUnionType, expr |-> ColumnExpr, return_type |-> NoType]

\* --------------------------------------------------------------- union_tag
\* ScalarValue::Utf8(Some(name)) and ScalarValue::Dictionary(_, value)
Utf8Scalar(name) == [tag |-> "Utf8", is_null |-> FALSE, value |-> name]
DictionaryScalar(v) == [tag |-> "Dictionary", is_null |-> FALSE, value |-> v]

\* ScalarValue == ScalarValue: scalars of different variants are not equal
scalar_eq(a, b) ==
    IF a.tag # b.tag THEN FALSE
    ELSE IF a.is_null # b.is_null THEN FALSE
    ELSE a.value = b.value

MaxOf(S) == CHOOSE x \in S : \A y \in S : y <= x

\* a plausible slip: the names are laid out by position, not by type id
union_tag_values_by_position(fields) ==
    [i \in 1..Len(fields) |-> fields[i].name]

\* the dictionary values: vec![""; max type id + 1] with values[type_id] = name
union_tag_values(fields) ==
    LET values_len == IF Len(fields) = 0 THEN 0 ELSE MaxOf(TypeIdsOf(fields)) + 1
    IN [i \in 1..values_len |->
          IF \E k \in 1..Len(fields) : fields[k].type_id = i - 1
          THEN fields[CHOOSE k \in 1..Len(fields) : fields[k].type_id = i - 1].name
          ELSE ""]

NoTag == [status |-> "none", keys |-> << >>, keys_has_nulls |-> FALSE,
          values |-> << >>, scalar |-> ScalarNull]
TagStatus(st) == [NoTag EXCEPT !.status = st]

\* the array branch; DictionaryArray::try_new rejects a key outside values
union_tag_array(u) ==
    LET values == union_tag_values(u.fields)
    IN IF \E i \in 1..Len(u.type_ids) :
            u.type_ids[i] < 0 \/ u.type_ids[i] >= Len(values)
       THEN TagStatus("err_arrow")
       ELSE [status |-> "ok_array", keys |-> u.type_ids,
             keys_has_nulls |-> FALSE, values |-> values, scalar |-> ScalarNull]

\* the scalar branch
union_tag_scalar(value, fields) ==
    IF value.some
    THEN IF \E k \in 1..Len(fields) : fields[k].type_id = value.type_id
         THEN [TagStatus("ok_scalar") EXCEPT !.scalar =
                 DictionaryScalar(Utf8Scalar(
                   fields[CHOOSE k \in 1..Len(fields) :
                            /\ fields[k].type_id = value.type_id
                            /\ \A j \in 1..(k - 1) :
                                 fields[j].type_id # value.type_id].name))]
         ELSE TagStatus("err_internal")
    ELSE [TagStatus("ok_scalar") EXCEPT !.scalar = ScalarNull]

\* as_union_array(&array)? on an array that is no union: the downcast fails
\* and the call returns an internal error
as_union_array_err == "err_cast"

\* an argument that is no union: an array is taken by the first arm, whose
\* as_union_array fails; anything else reaches v => exec_err!(..)
union_tag_other(first) ==
    IF first = "NonUnionArray"
    THEN TagStatus(as_union_array_err)
    ELSE TagStatus("err_exec")

\* ------------------------------------------------------------ struct_expr
\* the data types of the arguments of struct
StructTypes == {"Int64", "Utf8"}

\* argument j (0-based) of struct: a column of n rows or a scalar
StructArrayArg(j, dt, n) ==
    [form |-> "Array", data_type |-> dt, values |-> [r \in 1..n |-> 100 * j + r]]
StructScalarArg(j, dt) ==
    [form |-> "Scalar", data_type |-> dt, values |-> << 100 * j >>]

\* ColumnarValue::Array(array) => array.clone(),
\* ColumnarValue::Scalar(scalar) => scalar.to_array(): an array of one row
struct_to_array(arg) == [data_type |-> arg.data_type, values |-> arg.values]

\* format!("c{i}")
struct_field_name(i) == "c" \o ToString(i)

NoStruct == [args |-> << >>, status |-> "none", fields |-> << >>,
             columns |-> << >>, return_type |-> << >>]

\* a plausible slip: the check for zero arguments is left out
array_struct_no_check(st, arrays) ==
    IF \E i, j \in 1..Len(arrays) :
         Len(arrays[i].values) # Len(arrays[j].values)
    THEN [st EXCEPT !.status = "panic"]
    ELSE [st EXCEPT !.status = "ok_array",
                    !.fields = [i \in 1..Len(arrays) |->
                                  [name |-> struct_field_name(i - 1),
                                   data_type |-> arrays[i].data_type,
                                   nullable |-> TRUE]],
                    !.columns = [i \in 1..Len(arrays) |-> arrays[i].values]]

\* array_struct; StructArray::from panics when the columns differ in length
array_struct(st, arrays) ==
    IF Len(arrays) = 0
    THEN [st EXCEPT !.status = "err_at_least_one_argument"]
    ELSE IF \E i, j \in 1..Len(arrays) :
              Len(arrays[i].values) # Len(arrays[j].values)
    THEN [st EXCEPT !.status = "panic"]
    ELSE [st EXCEPT !.status = "ok_array",
                    !.fields = [i \in 1..Len(arrays) |->
                                  [name |-> struct_field_name(i - 1),
                                   data_type |-> arrays[i].data_type,
                                   nullable |-> TRUE]],
                    !.columns = [i \in 1..Len(arrays) |-> arrays[i].values]]

struct_expr(st) ==
    array_struct(st, [i \in 1..Len(st.args) |-> struct_to_array(st.args[i])])

\* StructFunc::return_type over the data types of the arguments
struct_return_type(arg_types) ==
    [i \in 1..Len(arg_types) |->
       [name |-> struct_field_name(i - 1), data_type |-> arg_types[i],
        nullable |-> TRUE]]


\* ------------------------------------------------------------------- Init
\* a child of the given length; validity is <<>> when has_nulls is FALSE
Child(type_id, len, has_nulls, validity) ==
    MakeArray(DataTypeOf(type_id), [i \in 1..len |-> ChildValue(type_id, i - 1)],
              has_nulls, validity)

Bitmaps(len) == [1..len -> BOOLEAN]

\* Well-formed union arrays as UnionArray::try_new accepts them: every type
\* id is declared, a sparse child has the union's length, a dense offset is
\* an index into the child its row selects.  union_extract reads of the
\* children it does not extract nothing but their length, so only the
\* requested child carries a validity bitmap.
ArrayArgs(fields, field_name, mode, type_ids, offsets, lens, has_nulls, validity) ==
    [form |-> "Array", fields |-> fields, mode |-> mode,
     type_ids |-> type_ids, offsets |-> offsets,
     children |-> [t \in TypeIdsOf(fields) |->
                     IF t = find_type_id(fields, field_name)
                     THEN Child(t, lens[t], has_nulls, validity)
                     ELSE Child(t, lens[t], FALSE, << >>)],
     value |-> NoValue, field_name |-> field_name,
     first |-> "UnionArray", second |-> "Utf8Some"]

ScalarArgs(fields, field_name, mode, value) ==
    [form |-> "Scalar", fields |-> fields, mode |-> mode,
     type_ids |-> << >>, offsets |-> << >>,
     children |-> [t \in TypeIdsOf(fields) |-> new_empty_array(DataTypeOf(t))],
     value |-> value, field_name |-> field_name,
     first |-> "UnionScalar", second |-> "Utf8Some"]

ScalarValues ==
    {NoValue} \cup
    { [some |-> TRUE, type_id |-> t,
       value |-> [tag |-> DataTypeOf(t), is_null |-> nl,
                  value |-> IF nl THEN 0 ELSE ChildValue(t, 0)]] :
      t \in ScalarTypeIds, nl \in BOOLEAN }

TargetLen(fields, field_name, lens) ==
    IF find_type_id(fields, field_name) = NotFound THEN 0
    ELSE lens[find_type_id(fields, field_name)]

InitArray ==
    \E fields \in FieldSets, field_name \in FieldNames,
       mode \in {"Sparse", "Dense"}, n \in 0..MaxRows :
      \E type_ids \in [1..n -> TypeIdsOf(fields)] :
        \E lens \in IF mode = "Sparse"
                    THEN [TypeIdsOf(fields) -> {n}]
                    ELSE [TypeIdsOf(fields) -> 0..MaxChildLen] :
          \E offsets \in IF mode = "Sparse" THEN { << >> }
                         ELSE { o \in [1..n -> 0..(MaxChildLen - 1)] :
                                  \A i \in 1..n : o[i] < lens[type_ids[i]] } :
            \E has_nulls \in BOOLEAN :
              \E validity \in IF has_nulls
                              THEN Bitmaps(TargetLen(fields, field_name, lens))
                              ELSE { << >> } :
                /\ has_nulls => find_type_id(fields, field_name) # NotFound
                /\ args = ArrayArgs(fields, field_name, mode, type_ids,
                                    offsets, lens, has_nulls, validity)

InitScalar ==
    \E fields \in FieldSets, field_name \in FieldNames,
       mode \in {"Sparse", "Dense"}, value \in ScalarValues :
        args = ScalarArgs(fields, field_name, mode, value)

\* the arguments of a call that is not union_extract's invoke
NoArgs ==
    [form |-> "None", fields |-> << >>, mode |-> "Sparse",
     type_ids |-> << >>, offsets |-> << >>, children |-> << >>,
     value |-> NoValue, field_name |-> "",
     first |-> "None", second |-> "None"]

\* arguments that the two arms of invoke written out do not take, or that
\* are no union: first is the form of args[0] and second the form of
\* args[1]; what the values hold is not read
FirstForms == {"UnionArray", "UnionScalar", "NonUnionArray", "NonUnionScalar"}
SecondForms == {"Utf8Some", "Utf8None", "Array"}

OtherArgs(first, second) ==
    [NoArgs EXCEPT !.form = "Other", !.first = first, !.second = second]

InitOther ==
    \E first \in FirstForms, second \in SecondForms :
        /\ ~(first \in {"UnionArray", "UnionScalar"} /\ second = "Utf8Some")
        /\ args = OtherArgs(first, second)

InitExtract ==
    /\ InitArray \/ InitScalar \/ InitOther
    /\ pc = "ready"
    /\ walk = NoWalk
    /\ result = NoResult
    /\ plan = NoPlan
    /\ tag = NoTag
    /\ strct = NoStruct

InitPlan ==
    /\ \E arg_type \in { UnionType(f) : f \in FieldSets } \cup { NonUnionType },
          expr \in PlanExprs :
         plan = [arg_type |-> arg_type, expr |-> expr, return_type |-> NoType]
    /\ pc = "plan"
    /\ args = NoArgs
    /\ walk = NoWalk
    /\ result = NoResult
    /\ tag = NoTag
    /\ strct = NoStruct

\* the argument of union_tag: a well-formed union array or a union scalar
InitTag ==
    /\ \/ \E fields \in FieldSets, mode \in {"Sparse", "Dense"}, n \in 0..MaxRows :
            \E type_ids \in [1..n -> TypeIdsOf(fields)] :
              \E lens \in IF mode = "Sparse"
                          THEN [TypeIdsOf(fields) -> {n}]
                          ELSE [TypeIdsOf(fields) -> 0..MaxChildLen] :
                \E offsets \in IF mode = "Sparse" THEN { << >> }
                               ELSE { o \in [1..n -> 0..(MaxChildLen - 1)] :
                                        \A i \in 1..n : o[i] < lens[type_ids[i]] } :
                  args = ArrayArgs(fields, "", mode, type_ids, offsets, lens,
                                   FALSE, << >>)
       \/ \E fields \in FieldSets, mode \in {"Sparse", "Dense"},
             value \in ScalarValues :
            args = ScalarArgs(fields, "", mode, value)
       \/ \E first \in {"NonUnionArray", "NonUnionScalar"} :
            args = OtherArgs(first, "None")
    /\ pc = "tag_ready"
    /\ walk = NoWalk
    /\ result = NoResult
    /\ plan = NoPlan
    /\ tag = NoTag
    /\ strct = NoStruct

\* the arguments of struct: up to MaxArgs columns of n rows or scalars
InitStruct ==
    /\ \E k \in 0..MaxArgs, n \in 0..MaxRows :
         \E forms \in [1..k -> {"Array", "Scalar"}],
            types \in [1..k -> StructTypes] :
           strct = [NoStruct EXCEPT !.args =
                      [j \in 1..k |->
                         IF forms[j] = "Array"
                         THEN StructArrayArg(j - 1, types[j], n)
                         ELSE StructScalarArg(j - 1, types[j])]]
    /\ pc = "struct_ready"
    /\ args = NoArgs
    /\ walk = NoWalk
    /\ result = NoResult
    /\ plan = NoPlan
    /\ tag = NoTag

Init ==
    \/ InitExtract
    \/ InitPlan
    \/ InitTag
    \/ InitStruct

\* ---------------------------------------------------------------- actions
type_id_of_args == find_type_id(args.fields, args.field_name)

\* a plausible slip: the rebuilt validity is written into the shared child
InvokeArraySparseInPlace ==
    /\ pc = "ready"
    /\ args.form = "Array"
    /\ args.mode = "Sparse"
    /\ result' = IF type_id_of_args = NotFound
                 THEN ErrFieldNotFound
                 ELSE sparse_extract(args, type_id_of_args)
    /\ args' = IF type_id_of_args = NotFound
               THEN args
               ELSE [args EXCEPT !.children[type_id_of_args] =
                       sparse_extract(args, type_id_of_args).array]
    /\ pc' = "done"
    /\ UNCHANGED << walk, plan, tag, strct >>

\* invoke on a sparse union array
InvokeArraySparse ==
    /\ pc = "ready"
    /\ args.form = "Array"
    /\ args.mode = "Sparse"
    /\ result' = IF type_id_of_args = NotFound
                 THEN ErrFieldNotFound
                 ELSE sparse_extract(args, type_id_of_args)
    /\ pc' = "done"
    /\ UNCHANGED << args, walk, plan, tag, strct >>

\* invoke on a dense union array, up to the return or the start of the walk
InvokeArrayDense ==
    /\ pc = "ready"
    /\ args.form = "Array"
    /\ args.mode = "Dense"
    /\ LET r == IF type_id_of_args = NotFound
                THEN ErrFieldNotFound
                ELSE dense_extract(args, type_id_of_args)
       IN IF r.status = "walk"
          THEN /\ pc' = "walk"
               /\ walk' = [NoWalk EXCEPT
                             !.mutable = mutable_new(args.children[type_id_of_args])]
               /\ UNCHANGED result
          ELSE /\ pc' = "done"
               /\ result' = r
               /\ UNCHANGED walk
    /\ UNCHANGED << args, plan, tag, strct >>

\* one iteration of the for loop of the span walk
WalkStep ==
    /\ pc = "walk"
    /\ walk.index < Len(args.type_ids)
    /\ LET w == walk_body(walk, args.children[type_id_of_args],
                          args.type_ids[walk.index + 1] = type_id_of_args,
                          args.offsets[walk.index + 1])
       IN /\ walk' = w
          /\ IF w.panicked
             THEN pc' = "done" /\ result' = Panic
             ELSE UNCHANGED << pc, result >>
    /\ UNCHANGED << args, plan, tag, strct >>

\* mutable.freeze() and the return after the loop
WalkFreeze ==
    /\ pc = "walk"
    /\ walk.index = Len(args.type_ids)
    /\ result' = OkArray(mutable_freeze(walk.mutable))
    /\ pc' = "done"
    /\ UNCHANGED << args, walk, plan, tag, strct >>

\* invoke on a union scalar
InvokeScalar ==
    /\ pc = "ready"
    /\ args.form = "Scalar"
    /\ result' = scalar_extract(args.value, args.fields, args.field_name)
    /\ pc' = "done"
    /\ UNCHANGED << args, walk, plan, tag, strct >>

\* invoke on arguments that the two arms written out do not take: an array
\* that is no union, with a non-null name, enters the first arm and fails in
\* as_union_array(&union_array)?; everything else reaches _ => todo!()
invoke_other(first, second) ==
    IF first = "NonUnionArray" /\ second = "Utf8Some"
    THEN ErrCast
    ELSE Panic

InvokeOther ==
    /\ pc = "ready"
    /\ args.form = "Other"
    /\ result' = invoke_other(args.first, args.second)
    /\ pc' = "done"
    /\ UNCHANGED << args, walk, plan, tag, strct >>

\* the planner resolves the return type of union_extract
ReturnTypeFromExprs ==
    /\ pc = "plan"
    /\ plan' = [plan EXCEPT
                  !.return_type = return_type_from_exprs(plan.arg_type, plan.expr)]
    /\ pc' = "planned"
    /\ UNCHANGED << args, walk, result, tag, strct >>

\* UnionTagFun::invoke
UnionTagInvoke ==
    /\ pc = "tag_ready"
    /\ tag' = IF args.form = "Array"
              THEN union_tag_array(args)
              ELSE IF args.form = "Scalar"
              THEN union_tag_scalar(args.value, args.fields)
              ELSE union_tag_other(args.first)
    /\ pc' = "tag_done"
    /\ UNCHANGED << args, walk, result, plan, strct >>

\* StructFunc::return_type, called by the planner
StructReturnType ==
    /\ pc = "struct_ready"
    /\ strct' = [strct EXCEPT !.return_type =
                   struct_return_type([i \in 1..Len(strct.args) |->
                                         strct.args[i].data_type])]
    /\ pc' = "struct_typed"
    /\ UNCHANGED << args, walk, result, plan, tag >>

\* StructFunc::invoke
StructInvoke ==
    /\ pc = "struct_typed"
    /\ strct' = struct_expr(strct)
    /\ pc' = "struct_done"
    /\ UNCHANGED << args, walk, result, plan, tag >>

Next ==
    \/ StructReturnType
    \/ StructInvoke
    \/ UnionTagInvoke
    \/ InvokeArraySparse
    \/ InvokeArrayDense
    \/ WalkStep
    \/ WalkFreeze
    \/ InvokeScalar
    \/ InvokeOther
    \/ ReturnTypeFromExprs

Spec == Init /\ [][Next]_vars

\* ---------------------------------------------------------------- claims
Done == pc = "done"
N == Len(args.type_ids)
FieldFound == type_id_of_args # NotFound
ArrayCall(mode) == args.form = "Array" /\ args.mode = mode /\ FieldFound
Target == args.children[type_id_of_args]

\* windows(2).all(|w| w[0] + 1 == w[1]) over the offsets of the union
OffsetsSequential ==
    \A i \in 1..(N - 1) : args.offsets[i] + 1 = args.offsets[i + 1]

\* the masked rebuild is the branch taken
CaseE ==
    /\ ArrayCall("Dense")
    /\ Len(args.fields) >= 2
    /\ ArrLen(Target) > 0
    /\ ~others_are_empty(args, type_id_of_args)
    /\ ~all_type_ids_match(args, type_id_of_args)

\* row i (1-based) of arr is null
RowNull(arr, i) == ~IsValid(arr, i - 1)

\* row i (1-based) of arr is element j (0-based) of src, value and nullness
RowEquals(arr, i, src, j) ==
    /\ IsValid(arr, i - 1) = IsValid(src, j)
    /\ IsValid(src, j) => arr.values[i] = src.values[j + 1]

\* the returned array has N rows; a row that selects the target shows
\* dense[offsets[i]], every other row is null
DenseMirror ==
    /\ result.status = "ok_array"
    /\ ArrLen(result.array) = N
    /\ \A i \in 1..N :
         IF args.type_ids[i] = type_id_of_args
         THEN RowEquals(result.array, i, Target, args.offsets[i])
         ELSE RowNull(result.array, i)

\* C1: the dense masked rebuild returns, for every well-formed dense union
\* with two or more fields, a row selecting another variant and a non-empty
\* other child, an array whose row i is dense[offsets[i]] when
\* discriminants[i] == T and null otherwise.
C1_MaskedRebuildMirrorsRows == (Done /\ CaseE) => DenseMirror

\* C2: on a sparse union the returned array has N rows, row i is non-null
\* iff discriminants[i] == T and children[T] is non-null at row i, and a
\* non-null row i has the value children[T][i], on every path.
C2_SparseMaskCorrect ==
    (Done /\ ArrayCall("Sparse")) =>
        /\ result.status = "ok_array"
        /\ ArrLen(result.array) = N
        /\ \A i \in 1..N :
             /\ IsValid(result.array, i - 1)
                  <=> (args.type_ids[i] = type_id_of_args /\ IsValid(Target, i - 1))
             /\ IsValid(result.array, i - 1)
                  => result.array.values[i] = Target.values[i]

\* the sparse fallback ran on a child with a bitmap and produced both a
\* non-null row and a row nulled although the child is non-null there
C2_Witness ==
    /\ Done /\ ArrayCall("Sparse")
    /\ Len(args.fields) = 2
    /\ Target.has_nulls
    /\ result.status = "ok_array"
    /\ \E i \in 1..N : IsValid(result.array, i - 1)
    /\ \E i \in 1..N : IsValid(Target, i - 1) /\ RowNull(result.array, i)
    /\ \E i \in 1..N : ~IsValid(Target, i - 1)
                       /\ args.type_ids[i] = type_id_of_args

\* C3: the dense masked rebuild returns an array of exactly N rows in which
\* every row that does not select the target is null.
C3_MaskedRebuildLength ==
    (Done /\ CaseE) =>
        /\ result.status = "ok_array"
        /\ ArrLen(result.array) = N
        /\ \A i \in 1..N :
             args.type_ids[i] # type_id_of_args => RowNull(result.array, i)

\* C4: a field name that the union does not declare makes invoke return the
\* field-not-found error, for a union array and for a union scalar, null
\* or not.
C4_UndeclaredFieldIsError ==
    (Done /\ args.form \in {"Array", "Scalar"} /\ ~FieldFound) =>
        result.status = "err_field_not_found"

\* C5: for a union scalar Some((T, v)) the field of type id T gives v and
\* any other declared field gives a null scalar; a null union scalar gives
\* a null scalar for every field name.
C5_ScalarExtraction ==
    (Done /\ args.form = "Scalar") =>
        /\ (args.value.some /\ FieldFound /\ type_id_of_args = args.value.type_id)
             => result = OkScalar(args.value.value)
        /\ (args.value.some /\ FieldFound /\ type_id_of_args # args.value.type_id)
             => (result.status = "ok_scalar" /\ result.scalar.is_null)
        /\ ~args.value.some
             => (result.status = "ok_scalar" /\ result.scalar.is_null)

\* a non-null value was unwrapped from a scalar of a two-field union
C5_Witness ==
    /\ Done /\ args.form = "Scalar"
    /\ Len(args.fields) = 2
    /\ args.value.some /\ type_id_of_args = args.value.type_id
    /\ result.status = "ok_scalar"
    /\ ~result.scalar.is_null

\* C6: a dense union of 0 rows gives an array of length 0 whatever the
\* length of the target child.
C6_DenseEmptyUnion ==
    (Done /\ ArrayCall("Dense") /\ N = 0) =>
        (result.status = "ok_array" /\ ArrLen(result.array) = 0)

\* an empty dense union whose target child holds unreferenced values
C6_Witness ==
    /\ Done /\ ArrayCall("Dense") /\ N = 0
    /\ ArrLen(Target) > 0
    /\ result.status = "ok_array"

\* C7: a dense union of N > 0 rows whose target child is empty gives an
\* array of N rows, all of them null.
C7_DenseEmptyChild ==
    (Done /\ ArrayCall("Dense") /\ N > 0 /\ ArrLen(Target) = 0) =>
        /\ result.status = "ok_array"
        /\ ArrLen(result.array) = N
        /\ \A i \in 1..N : RowNull(result.array, i)

\* several rows select the other child, the target child is empty
C7_Witness ==
    /\ Done /\ ArrayCall("Dense") /\ N > 1 /\ ArrLen(Target) = 0
    /\ result.status = "ok_array"
    /\ ArrLen(result.array) = N

\* C8: a dense union with one field and N > 0 rows whose offsets are not
\* sequential gives an array of N rows whose row i is dense[offsets[i]].
C8_DenseGather ==
    (Done /\ ArrayCall("Dense") /\ Len(args.fields) = 1 /\ N > 0
          /\ ~OffsetsSequential) => DenseMirror

\* offsets [0, 2, 1] give the child's elements 0, 2, 1 in row order
C8_Witness ==
    /\ Done /\ ArrayCall("Dense") /\ Len(args.fields) = 1
    /\ args.offsets = << 0, 2, 1 >>
    /\ result.status = "ok_array"
    /\ result.array.values = << ChildValue(1, 0), ChildValue(1, 2), ChildValue(1, 1) >>

\* C9: a dense union with one field, N > 0 rows and sequential offsets gives
\* the slice dense[offsets[0] .. offsets[0]+N) when len(dense) > N and dense
\* itself when len(dense) == N, where offsets[0] is 0; in both cases row i
\* is dense[offsets[i]].
C9_DenseSequentialSlice ==
    (Done /\ ArrayCall("Dense") /\ Len(args.fields) = 1 /\ N > 0
          /\ OffsetsSequential) =>
        /\ DenseMirror
        /\ ArrLen(Target) > N =>
             /\ result.array.values =
                  SubSeq(Target.values, args.offsets[1] + 1, args.offsets[1] + N)
             /\ result.array.has_nulls = Target.has_nulls
        /\ ArrLen(Target) = N =>
             (result.array = Target /\ args.offsets[1] = 0)

\* a slice that starts after the first element of a longer child
C9_Witness ==
    /\ Done /\ ArrayCall("Dense") /\ Len(args.fields) = 1 /\ N > 1
    /\ OffsetsSequential
    /\ ArrLen(Target) > N
    /\ args.offsets[1] > 0
    /\ result.status = "ok_array"

\* C10: a sparse union with exactly one field gives the child array
\* unchanged: same length, same values, same validity.
C10_SparseSingleFieldIdentity ==
    (Done /\ ArrayCall("Sparse") /\ Len(args.fields) = 1) =>
        result = OkArray(Target)

\* the single child has a null and a non-null element
C10_Witness ==
    /\ Done /\ ArrayCall("Sparse") /\ Len(args.fields) = 1
    /\ \E i \in 1..N : ~IsValid(Target, i - 1)
    /\ \E i \in 1..N : IsValid(Target, i - 1)
    /\ result.status = "ok_array"

\* C11: on a sparse union whose target child is null at every position the
\* returned array equals that child, null at every one of the N rows,
\* whatever the discriminants are.
C11_SparseAllNull ==
    (Done /\ ArrayCall("Sparse") /\ null_count(Target) = ArrLen(Target)) =>
        /\ result = OkArray(Target)
        /\ ArrLen(result.array) = N
        /\ \A i \in 1..N : RowNull(result.array, i)

\* an all-null child of a two-field union, selected by some rows only
C11_Witness ==
    /\ Done /\ ArrayCall("Sparse") /\ Len(args.fields) = 2
    /\ N > 1
    /\ null_count(Target) = ArrLen(Target)
    /\ \E i \in 1..N : args.type_ids[i] = type_id_of_args
    /\ \E i \in 1..N : args.type_ids[i] # type_id_of_args
    /\ result.status = "ok_array"

\* the declared type of the field called name, from a table of the schema
DeclaredType(fields, name) ==
    IF name = "a" /\ Len(fields) >= 1 THEN "Utf8"
    ELSE IF name = "b" /\ Len(fields) >= 2 THEN "Int32"
    ELSE "undeclared"

\* C12: the result type of union_extract is the declared data type of the
\* field named by the literal second argument; resolution is an error when
\* the first argument's type is no union, when the second argument is not a
\* non-null string literal, or when no field has that name.
C12_StaticTypeResolution ==
    pc = "planned" =>
        LET literal == plan.expr.kind = "Literal" /\ plan.expr.tag = "Utf8"
                         /\ plan.expr.some
            union == plan.arg_type.kind = "Union"
            declared == DeclaredType(plan.arg_type.fields, plan.expr.name)
        IN /\ (union /\ literal /\ declared # "undeclared")
                => plan.return_type = OkType(declared)
           /\ ~union => plan.return_type.status = "err_first_not_union"
           /\ (union /\ ~literal)
                => plan.return_type.status = "err_second_not_literal"
           /\ (union /\ literal /\ declared = "undeclared")
                => plan.return_type.status = "err_field_not_found"

\* the second field of a two-field union was resolved to its own type
C12_Witness ==
    /\ pc = "planned"
    /\ plan.arg_type.kind = "Union" /\ Len(plan.arg_type.fields) = 2
    /\ plan.expr = LiteralUtf8("a")
    /\ plan.return_type = OkType("Utf8")

\* the type return_type_from_exprs declares for the arguments of invoke
DeclaredReturnType ==
    return_type_from_exprs(UnionType(args.fields), LiteralUtf8(args.field_name))

\* C13: for a null union scalar and a declared field, and for Some((U, v))
\* when the requested field's type id differs from U, invoke returns a null
\* scalar of the field's declared type, the type return_type_from_exprs
\* declares.
C13_ScalarNullIsTyped ==
    (Done /\ args.form = "Scalar" /\ FieldFound
          /\ (~args.value.some \/ args.value.type_id # type_id_of_args)) =>
        /\ result.status = "ok_scalar"
        /\ result.scalar.is_null
        /\ OkType(result.scalar.tag) = DeclaredReturnType

\* C14: no step of invoke changes its input (discriminants, offsets,
\* children, fields), and a call that fails hands out no array and no
\* scalar, not even a partly built one.
C14_InputUnchanged ==
    [][ /\ args' = args
        /\ result'.status \in {"err_field_not_found", "panic"}
             => (result'.array = NoArray /\ result'.scalar = ScalarNull) ]_vars

\* a call that failed inside the span walk after rows had been written
C14_Witness ==
    /\ Done /\ args.form = "Array"
    /\ result.status = "panic"
    /\ Len(walk.mutable.values) > 0
    /\ result.array = NoArray

\* the declared name of a type id, from a table of the schema
DeclaredName(type_id) == IF type_id = 1 THEN "a" ELSE "b"

\* C15: union_tag on a union array of N rows returns a dictionary array of
\* N rows, none of them null, whose row i decodes to the declared name of
\* the field with type id discriminants[i].
C15_UnionTagArray ==
    (pc = "tag_done" /\ args.form = "Array") =>
        /\ tag.status = "ok_array"
        /\ Len(tag.keys) = N
        /\ ~tag.keys_has_nulls
        /\ \A i \in 1..N :
             /\ tag.keys[i] + 1 \in 1..Len(tag.values)
             /\ tag.values[tag.keys[i] + 1] = DeclaredName(args.type_ids[i])

\* a dense union whose rows select both fields, type ids 1 and 3
C15_Witness ==
    /\ pc = "tag_done" /\ args.form = "Array" /\ args.mode = "Dense"
    /\ tag.status = "ok_array"
    /\ \E i \in 1..N : tag.values[tag.keys[i] + 1] = "a"
    /\ \E i \in 1..N : tag.values[tag.keys[i] + 1] = "b"

\* C16: union_tag on a union scalar Some((t, _)) whose fields declare t
\* under the name n returns a scalar equal to ScalarValue::Utf8(Some(n)).
C16_UnionTagScalarEqualsUtf8 ==
    (pc = "tag_done" /\ args.form = "Scalar" /\ args.value.some
        /\ args.value.type_id \in TypeIdsOf(args.fields)) =>
        /\ tag.status = "ok_scalar"
        /\ scalar_eq(tag.scalar, Utf8Scalar(DeclaredName(args.value.type_id)))

\* the name of struct field i (0-based), from a table
ExpectedStructName(i) == << "c0", "c1", "c2", "c3", "c4" >>[i + 1]

\* C17: struct_expr over k >= 1 arguments returns a struct array with k
\* fields c0 .. c(k-1) in argument order whose column ci is argument i, a
\* scalar argument being expanded to an array, and return_type declares the
\* same names and types.
C17_StructExpr ==
    (pc = "struct_done" /\ Len(strct.args) >= 1) =>
        /\ strct.status = "ok_array"
        /\ Len(strct.fields) = Len(strct.args)
        /\ Len(strct.return_type) = Len(strct.args)
        /\ \A i \in 1..Len(strct.args) :
             /\ strct.fields[i].name = ExpectedStructName(i - 1)
             /\ strct.fields[i].data_type = strct.args[i].data_type
             /\ strct.return_type[i].name = strct.fields[i].name
             /\ strct.return_type[i].data_type = strct.fields[i].data_type
             /\ IF strct.args[i].form = "Array"
                THEN strct.columns[i] = strct.args[i].values
                ELSE /\ Len(strct.columns[i]) >= 1
                     /\ \A r \in 1..Len(strct.columns[i]) :
                          strct.columns[i][r] = strct.args[i].values[1]

\* C18: in the dense masked rebuild a run of matching rows still pending
\* after the last row is flushed before the freeze, so when the last row
\* selects the target its value ends the returned array.
C18_PendingRunFlushed ==
    (Done /\ CaseE /\ args.type_ids[N] = type_id_of_args) =>
        /\ result.status = "ok_array"
        /\ ArrLen(result.array) >= 1
        /\ RowEquals(result.array, ArrLen(result.array), Target, args.offsets[N])

\* row i (1-based) selects the target and row i - 1 does not, or i is 1
EntersMatch(i) ==
    /\ args.type_ids[i] = type_id_of_args
    /\ i = 1 \/ args.type_ids[i - 1] # type_id_of_args

\* C19: when a row enters a match (the row before did not select the
\* target, or there is none) the walk begins a new pending span at that
\* row's offset: the start cursor equals offsets[i].
C19_SpanStartsAtOffset ==
    (pc = "walk" /\ walk.index >= 1 /\ EntersMatch(walk.index)) =>
        walk.start = args.offsets[walk.index]

\* rows j .. i (1-based) all select the target with consecutive offsets
IsRun(j, i) ==
    /\ \A r \in j..i : args.type_ids[r] = type_id_of_args
    /\ \A r \in j..(i - 1) : args.offsets[r] + 1 = args.offsets[r + 1]

\* the number of rows of the matching span that ends at row i
PendingRows(i) ==
    IF args.type_ids[i] # type_id_of_args THEN 0
    ELSE i - (CHOOSE j \in 1..i :
                IsRun(j, i) /\ \A r \in 1..(j - 1) : ~IsRun(r, i)) + 1

\* C20: after the walk has processed rows 0..i the number of elements
\* written to the output plus the number of rows of the pending matching
\* span is i + 1.
C20_RowAlignment ==
    (pc = "walk" /\ walk.index >= 1) =>
        Len(walk.mutable.values) + PendingRows(walk.index) = walk.index

\* C21: for every well-formed dense union that reaches the masked rebuild
\* every step of the walk is safe: offset - last_offset never underflows
\* and every range given to extend satisfies start <= end <= len(dense).
C21_WalkIsSafe ==
    (pc \in {"walk", "done"} /\ CaseE) => ~walk.panicked

\* the dense multi-field fast path is the branch taken
CaseD ==
    /\ ArrayCall("Dense")
    /\ Len(args.fields) >= 2
    /\ N > 0
    /\ ArrLen(Target) > 0
    /\ others_are_empty(args, type_id_of_args)
         \/ all_type_ids_match(args, type_id_of_args)

\* C22: on the dense multi-field fast path every row selects the target and
\* the returned array has N rows with row i equal to dense[offsets[i]], the
\* result of the single-field logic, whether the child is returned as it
\* is, sliced or gathered.
C22_DenseFastPath ==
    (Done /\ CaseD) =>
        /\ \A i \in 1..N : args.type_ids[i] = type_id_of_args
        /\ result.status = "ok_array"
        /\ ArrLen(result.array) = N
        /\ \A i \in 1..N : RowEquals(result.array, i, Target, args.offsets[i])
        /\ result = dense_single_field(Target, N, args.offsets)

\* a two-field union whose other child is not empty, gathered through
\* offsets that are not sequential
C22_Witness ==
    /\ Done /\ CaseD
    /\ ~others_are_empty(args, type_id_of_args)
    /\ N >= 2
    /\ ~OffsetsSequential
    /\ result.status = "ok_array"
    /\ result.array.values[1] # result.array.values[2]

\* C23: the Ordering::Greater arm, unreachable!(), of the dense multi-field
\* fast path is never executed: when the offsets are found sequential the
\* union is not longer than the child, and the call does not panic.
C23_GreaterUnreachable ==
    (Done /\ CaseD) =>
        /\ result.status # "panic"
        /\ is_sequential(Target, N, args.offsets) => N <= ArrLen(Target)

\* a union longer than the target child went through the fast path
C23_Witness ==
    /\ Done /\ CaseD
    /\ N > ArrLen(Target)
    /\ result.status = "ok_array"

\* the sparse fallback is the branch taken
SparseFallback ==
    /\ ArrayCall("Sparse")
    /\ Len(args.fields) >= 2
    /\ N > 0
    /\ null_count(Target) # ArrLen(Target)
    /\ ~all_type_ids_match(args, type_id_of_args)

\* C24: in the sparse fallback the result's validity at row i is true iff
\* discriminants[i] == type_id and the child has no validity bitmap or is
\* valid at row i; a child without a bitmap counts as all valid.
C24_SparseNullMask ==
    (Done /\ SparseFallback) =>
        /\ result.status = "ok_array"
        /\ result.array.has_nulls
        /\ Len(result.array.validity) = N
        /\ \A i \in 1..N :
             result.array.validity[i]
               <=> /\ args.type_ids[i] = type_id_of_args
                   /\ ~Target.has_nulls \/ Target.validity[i]

\* a child without a bitmap gave a valid row and a null row
C24_Witness ==
    /\ Done /\ SparseFallback
    /\ ~Target.has_nulls
    /\ result.status = "ok_array"
    /\ \E i \in 1..N : result.array.validity[i]
    /\ \E i \in 1..N : ~result.array.validity[i]

\* C25: the sparse fallback changes the validity bitmap only: the result has
\* the child's length, data type and values at every position, also where
\* the row became null.
C25_SparseFallbackFrame ==
    (Done /\ SparseFallback) =>
        /\ result.status = "ok_array"
        /\ ArrLen(result.array) = ArrLen(Target)
        /\ result.array.data_type = Target.data_type
        /\ result.array.values = Target.values

\* a row that the child holds as valid became null and kept its value
C25_Witness ==
    /\ Done /\ SparseFallback
    /\ result.status = "ok_array"
    /\ \E i \in 1..N :
         /\ IsValid(Target, i - 1)
         /\ RowNull(result.array, i)
         /\ result.array.values[i] = ChildValue(type_id_of_args, i - 1)

\* C26: every array-form call of invoke that returns Ok returns an array of
\* the declared data type of the requested field, the type that
\* return_type_from_exprs resolves for the same arguments, on every sparse
\* and dense path.
C26_ArrayResultType ==
    (Done /\ args.form = "Array" /\ result.status = "ok_array") =>
        OkType(result.array.data_type) = DeclaredReturnType

\* the second field of a dense union with an empty child: a new null array
C26_Witness ==
    /\ Done /\ ArrayCall("Dense")
    /\ type_id_of_args = 3
    /\ N > 0
    /\ ArrLen(Target) = 0
    /\ result.status = "ok_array"
    /\ result.array.data_type = "Int32"

\* row i (1-based) begins a maximal run of rows that select the target with
\* consecutive offsets
BeginsRun(i) ==
    /\ args.type_ids[i] = type_id_of_args
    /\ \/ i = 1
       \/ args.type_ids[i - 1] # type_id_of_args
       \/ args.offsets[i - 1] + 1 # args.offsets[i]

\* the number of such runs that begin in rows 1 .. i
Runs(i) == Cardinality({ j \in 1..i : BeginsRun(j) })

\* C28: the span walk issues at most one extend call per maximal run of
\* consecutive rows that select the target with consecutive offsets: the
\* number of copy calls never exceeds the number of runs met so far.
C28_CopiesPerRun ==
    (pc \in {"walk", "done"} /\ CaseE) => walk.copies <= Runs(walk.index)

\* a run of two rows was copied by one call
C28_Witness ==
    /\ Done /\ CaseE
    /\ result.status = "ok_array"
    /\ walk.copies = 1
    /\ Runs(N) = 1
    /\ Cardinality({ i \in 1..N : args.type_ids[i] = type_id_of_args }) >= 2

\* C30: array_struct with zero arguments returns the error "struct requires
\* at least one argument" and builds no struct array; with one or more
\* arguments it never returns that error.
C30_StructNeedsArgument ==
    pc = "struct_done" =>
        /\ Len(strct.args) = 0 =>
             /\ strct.status = "err_at_least_one_argument"
             /\ strct.fields = << >>
             /\ strct.columns = << >>
        /\ Len(strct.args) >= 1 => strct.status # "err_at_least_one_argument"

\* struct was called with no argument and returned the error
C30_Witness ==
    /\ pc = "struct_done"
    /\ Len(strct.args) = 0
    /\ strct.status = "err_at_least_one_argument"

\* C27: invoke ends with Ok or with a returned error and never with a
\* panic, whatever the forms of its two arguments: a union array, a union
\* scalar or a value that is no union; a non-null string scalar, a null
\* string scalar or an array.
C27_InvokeNeverPanics ==
    Done => result.status # "panic"

\* C29: union_tag gives a null scalar for a null union scalar, an internal
\* error and no name for a union scalar whose type id its fields do not
\* declare, and an execution error for an argument that is no union.
C29_UnionTagErrors ==
    pc = "tag_done" =>
        /\ (args.form = "Scalar" /\ ~args.value.some) =>
             /\ tag.status = "ok_scalar"
             /\ tag.scalar = ScalarNull
        /\ (args.form = "Scalar" /\ args.value.some
              /\ args.value.type_id \notin TypeIdsOf(args.fields)) =>
             /\ tag.status = "err_internal"
             /\ tag.scalar = ScalarNull
        /\ args.form = "Other" => tag.status = "err_exec"

====
